---- MODULE Spec2Model ----
(***************************************************************************)
(* State-machine model of the chilli monitoring system:                    *)
(*   - ProcessManager (process_manager.py): start / stop / is_running      *)
(*     called by concurrent control-plane threads;                         *)
(*   - the sampling process (logger.py run_logging_cycle) that the         *)
(*     supervisor spawns, with its watering cycle and the pump relay;      *)
(*   - the operating system's signal delivery to the sampling process;     *)
(*   - the watering eligibility check and the calibration functions of     *)
(*     sensors.py, called on their own on drawn inputs.                    *)
(*                                                                         *)
(* Units: voltages in millivolts, percentages in thousandths of a percent  *)
(* (the code rounds to 3 decimals), time in seconds.                       *)
(***************************************************************************)
EXTENDS Integers, Sequences, FiniteSets, TLC

\* ------------------------------------------------------------- bounds
NumThreads == 2      \* control-plane threads calling the supervisor
MaxProcs == 2        \* sampling processes spawned over a run
MaxCycles == 2       \* sampling-loop iterations over a run
MaxOps == 3          \* supervisor operations called over a run
MaxLogId == 8        \* highest id the logs table hands out
MaxRelayId == 3      \* highest id the relay_log table hands out
InitRows == 7        \* rows of a logs table that is not empty at the start
NumRequests == 2     \* concurrent relay toggle requests

Threads == 1..NumThreads
Procs == 1..MaxProcs

\* -------------------------------------------------- program constants
NoProc == 0                              \* self._proc = None
NoReading == -1                          \* a failed read returns None
GuardAbsent == -1                        \* last_watering.txt does not exist
GuardCorrupt == -2                       \* it exists, float() rejects its content
GuardUnreadable == -3                    \* it exists, open() raises IOError
WATERING_THRESHOLD_PERCENT == 40000      \* 40.0 %
WATERING_DURATION_SECONDS == 10
WATERING_COOLDOWN_SECONDS == 3600
LOG_SLEEP_SECONDS == 2400                \* time.sleep(2400)
default_dry_v == 1600                    \* 1.60 V
default_wet_v == 200                     \* 0.20 V

\* Voltages the soil sensor can deliver in a cycle (None: the read failed).
SoilVoltages == {NoReading, 900, 1600}

\* Inputs of the eligibility check: moisture values around the threshold,
\* clock values, and ages of the guard timestamp around the cooldown.
EligPercents == {NoReading, 0, 30000, 39900, 39999, 40000, 40001, 100000}
EligNows == {4000, 10000}
EligAges == {0, 500, 3599, 3600, 3700}

\* Inputs of the conversion: the bounds of the stored profile (in either
\* order, also equal) and the voltages converted. No quotient of these
\* falls on a rounding tie.
ConvVolts == {200, 300, 1500, 1600}
ConvInputs == {NoReading, 0, 200, 300, 600, 900, 1500, 1600, 2000}

\* Seconds between an earlier run's last watering and the start of this run
RestartAges == {1200, 4000}

VARIABLES
    self_lock,      \* ProcessManager._lock: 0 free, else the holding thread
    self_proc,      \* ProcessManager._proc: NoProc or the process handle
    pc,             \* pc[t]: position of thread t
    ctx,            \* ctx[t]: the operation thread t runs (and which is_running call)
    ret,            \* ret[t]: what the operation returned
    tgt,            \* tgt[t]: local `proc` of start() / the process stop() signalled
    pre,            \* pre[t]: the live supervised process when t took the lock
    nspawned,       \* processes spawned so far
    nops,           \* supervisor operations called so far
    lpc,            \* lpc[p]: position of sampling process p
    pend,           \* pend[p]: signal sent to p and not yet delivered
    soil_voltage,   \* soil_voltage[p]: the loop's local soil_voltage
    pin,            \* level of the pump relay pin RELAY1 (active low)
    guard,          \* content of last_watering.txt
    now,            \* time.time()
    status_file,    \* logger_status.txt: "absent" or "RUNNING"
    ncycles,        \* sampling cycles started so far
    faulty,         \* the sensors (lux, dht22, ds18b20) whose reads fail in this run
    logs,           \* rows of the logs table, in insertion order
    relay_log,      \* rows of the relay_log table, in insertion order
    exc,            \* exc[p]: the exception that ended the loop of process p
    watered_at,     \* time the last watering cycle completed (GuardAbsent: none yet)
    guard_lost,     \* TRUE once a write of last_watering.txt has failed
    cal_file,       \* the calibration file: [kind, dry_v, wet_v]
    cal_ret,        \* the last calibration call: [call, outcome, voltage, dry_v, wet_v]
    cal_write,      \* the save of calibrate_soil_moisture_sensor: [state, call, voltage, old, new]
    elig_in,        \* soil_moisture_percent handed to should_initiate_watering
    elig_ret,       \* what that call returned
    conv_in,        \* voltages handed to convert_voltage_to_soil_percentage
    conv_ret,       \* what those calls returned
    logs_seq,       \* sqlite_sequence of the logs table (last id handed out)
    relay_seq,      \* sqlite_sequence of the relay_log table
    db_ret,         \* the last call of a database function and its result
    relay_ret,      \* the last calls of the relay driver and their results
    req,            \* the relay toggle requests of the web server
    adc             \* one read of the soil-moisture ADC

supVars == <<self_lock, self_proc, pc, ctx, ret, tgt, pre, nspawned, nops>>
histVars == <<faulty, logs, relay_log, exc, watered_at, guard_lost,
              logs_seq, relay_seq>>
logVars == <<lpc, pend, soil_voltage, pin, guard, now, status_file, ncycles,
             faulty, logs, relay_log, exc, watered_at, guard_lost,
             logs_seq, relay_seq>>
calVars == <<cal_file, cal_ret, cal_write>>
eligVars == <<elig_in, elig_ret>>
convVars == <<conv_in, conv_ret>>
ioVars == <<relay_ret, req, adc>>
fnVars == <<cal_file, cal_ret, cal_write, elig_in, elig_ret, conv_in, conv_ret,
            relay_ret, req, adc,
            db_ret>>
vars == <<self_lock, self_proc, pc, ctx, ret, tgt, pre, nspawned, nops,
          lpc, pend, soil_voltage, pin, guard, now, status_file, ncycles,
          faulty, logs, relay_log, exc, watered_at, guard_lost,
          logs_seq, relay_seq,
          cal_file, cal_ret, cal_write, elig_in, elig_ret, conv_in, conv_ret,
          db_ret,
          relay_ret, req, adc>>

\* ------------------------------------------------------ pure functions

\* n / d rounded to the nearest integer (d > 0, n >= 0)
RoundDiv(n, d) == (2 * n + d) \div (2 * d)

Max(a, b) == IF a >= b THEN a ELSE b
Min(a, b) == IF a <= b THEN a ELSE b

\* Variants of the conversion: a rising instead of a falling scale; the
\* quotient truncated instead of rounded; the inverted pair not swapped; the
\* span tested after the comparison with the bounds; None passed through.
convert_voltage_rising(voltage, dry_v, wet_v) ==
    LET dry_voltage == IF dry_v < wet_v THEN wet_v ELSE dry_v
        wet_voltage == IF dry_v < wet_v THEN dry_v ELSE wet_v
        voltage_range == dry_voltage - wet_voltage
    IN  IF voltage_range <= 0 THEN 0
        ELSE IF voltage = NoReading THEN 0
        ELSE IF voltage >= dry_voltage THEN 100000
        ELSE IF voltage <= wet_voltage THEN 0
        ELSE Max(0, Min(100000,
                 RoundDiv((voltage - wet_voltage) * 100000, voltage_range)))

convert_voltage_truncated(voltage, dry_v, wet_v) ==
    LET dry_voltage == IF dry_v < wet_v THEN wet_v ELSE dry_v
        wet_voltage == IF dry_v < wet_v THEN dry_v ELSE wet_v
        voltage_range == dry_voltage - wet_voltage
    IN  IF voltage_range <= 0 THEN 0
        ELSE IF voltage = NoReading THEN 0
        ELSE IF voltage >= dry_voltage THEN 0
        ELSE IF voltage <= wet_voltage THEN 100000
        ELSE Max(0, Min(100000,
                 ((dry_voltage - voltage) * 100000) \div voltage_range))

convert_voltage_unswapped(voltage, dry_v, wet_v) ==
    LET voltage_range == dry_v - wet_v
    IN  IF voltage_range <= 0 THEN 0
        ELSE IF voltage = NoReading THEN 0
        ELSE IF voltage >= dry_v THEN 0
        ELSE IF voltage <= wet_v THEN 100000
        ELSE Max(0, Min(100000,
                 RoundDiv((dry_v - voltage) * 100000, voltage_range)))

convert_voltage_span_last(voltage, dry_v, wet_v) ==
    LET dry_voltage == IF dry_v < wet_v THEN wet_v ELSE dry_v
        wet_voltage == IF dry_v < wet_v THEN dry_v ELSE wet_v
        voltage_range == dry_voltage - wet_voltage
    IN  IF voltage = NoReading THEN 0
        ELSE IF voltage <= wet_voltage THEN 100000
        ELSE IF voltage >= dry_voltage THEN 0
        ELSE IF voltage_range <= 0 THEN 0
        ELSE Max(0, Min(100000,
                 RoundDiv((dry_voltage - voltage) * 100000, voltage_range)))

convert_voltage_none_kept(voltage, dry_v, wet_v) ==
    LET dry_voltage == IF dry_v < wet_v THEN wet_v ELSE dry_v
        wet_voltage == IF dry_v < wet_v THEN dry_v ELSE wet_v
        voltage_range == dry_voltage - wet_voltage
    IN  IF voltage = NoReading THEN NoReading
        ELSE IF voltage_range <= 0 THEN 0
        ELSE IF voltage >= dry_voltage THEN 0
        ELSE IF voltage <= wet_voltage THEN 100000
        ELSE Max(0, Min(100000,
                 RoundDiv((dry_voltage - voltage) * 100000, voltage_range)))

\* sensors.convert_voltage_to_soil_percentage with the loaded calibration
\* (dry_v, wet_v); the result is in thousandths of a percent.
convert_voltage_to_soil_percentage(voltage, dry_v, wet_v) ==
    LET dry_voltage == IF dry_v < wet_v THEN wet_v ELSE dry_v
        wet_voltage == IF dry_v < wet_v THEN dry_v ELSE wet_v
        voltage_range == dry_voltage - wet_voltage
    IN  IF voltage_range <= 0 THEN 0
        ELSE IF voltage = NoReading THEN 0
        ELSE IF voltage >= dry_voltage THEN 0
        ELSE IF voltage <= wet_voltage THEN 100000
        ELSE Max(0, Min(100000,
                 RoundDiv((dry_voltage - voltage) * 100000, voltage_range)))

\* Variants of the eligibility check: the threshold compared with > instead
\* of >=, the cooldown compared with <= instead of <, the cooldown ignored.
should_initiate_watering_gt(soil_moisture_percent, g, t) ==
    IF soil_moisture_percent = NoReading
          \/ soil_moisture_percent > WATERING_THRESHOLD_PERCENT
    THEN FALSE
    ELSE IF g # GuardAbsent /\ t - g < WATERING_COOLDOWN_SECONDS
    THEN FALSE
    ELSE TRUE

should_initiate_watering_le(soil_moisture_percent, g, t) ==
    IF soil_moisture_percent = NoReading
          \/ soil_moisture_percent >= WATERING_THRESHOLD_PERCENT
    THEN FALSE
    ELSE IF g # GuardAbsent /\ t - g <= WATERING_COOLDOWN_SECONDS
    THEN FALSE
    ELSE TRUE

should_initiate_watering_nocooldown(soil_moisture_percent, g, t) ==
    ~(soil_moisture_percent = NoReading
          \/ soil_moisture_percent >= WATERING_THRESHOLD_PERCENT)

\* Variant in which a guard file that cannot be read or parsed blocks the
\* watering.
should_initiate_watering_strict(soil_moisture_percent, g, t) ==
    IF soil_moisture_percent = NoReading
          \/ soil_moisture_percent >= WATERING_THRESHOLD_PERCENT
    THEN FALSE
    ELSE IF g \in {GuardCorrupt, GuardUnreadable}
    THEN FALSE
    ELSE IF g # GuardAbsent /\ t - g < WATERING_COOLDOWN_SECONDS
    THEN FALSE
    ELSE TRUE

\* logger.should_initiate_watering: percent may be NoReading (None). With
\* the guard file present, open() or float() raising IOError / ValueError is
\* caught and ignored (lines 64-65) and True is returned.
should_initiate_watering(soil_moisture_percent, g, t) ==
    IF soil_moisture_percent = NoReading
          \/ soil_moisture_percent >= WATERING_THRESHOLD_PERCENT
    THEN FALSE
    ELSE IF g \in {GuardCorrupt, GuardUnreadable}
    THEN TRUE
    ELSE IF g # GuardAbsent /\ t - g < WATERING_COOLDOWN_SECONDS
    THEN FALSE
    ELSE TRUE

\* ------------------------------------------------------- calibration

\* The calibration file: missing, present but not openable for reading,
\* not JSON, JSON that is no object, an object lacking dry_v or wet_v, an
\* object whose dry_v or wet_v float() rejects, or a profile of two numbers.
CalFile(kind, dry_v, wet_v) == [kind |-> kind, dry_v |-> dry_v, wet_v |-> wet_v]
BrokenKinds == {"missing", "unreadable", "not_json", "not_object",
                "no_keys", "non_numeric"}
ProfileVolts == {300, 1500}
CalFiles ==
    {CalFile(k, 0, 0) : k \in BrokenKinds}
        \cup {CalFile("valid", d, w) : d \in ProfileVolts, w \in ProfileVolts}

\* What a call returns: outcome "returned" with a profile, or "raised".
Returned(dry_v, wet_v) == [outcome |-> "returned", dry_v |-> dry_v, wet_v |-> wet_v]
Raised == [outcome |-> "raised", dry_v |-> 0, wet_v |-> 0]

\* Variant of load_voltage_calibration that ignores the file.
load_voltage_calibration_defaults(file) == Returned(default_dry_v, default_wet_v)

\* sensors.load_voltage_calibration (lines 207-235)
load_voltage_calibration(file) ==
    CASE file.kind = "missing" -> Returned(default_dry_v, default_wet_v)
      [] file.kind = "unreadable" -> Raised     \* open(): OSError is not caught
      [] file.kind = "not_json" -> Returned(default_dry_v, default_wet_v)
      [] file.kind = "not_object" -> Returned(default_dry_v, default_wet_v)
      [] file.kind = "no_keys" -> Returned(default_dry_v, default_wet_v)
      [] file.kind = "non_numeric" -> Returned(default_dry_v, default_wet_v)
      [] file.kind = "valid" -> Returned(file.dry_v, file.wet_v)

\* run_logging_cycle lines 107-119: the percent handed to the eligibility
\* check for a soil voltage (rounding to 3 decimals is the identity on
\* thousandths; None stays None only if the conversion returned None).
soil_percent_of(voltage) ==
    LET calibration == load_voltage_calibration(cal_file)
        p == convert_voltage_to_soil_percentage(
                 voltage, calibration.dry_v, calibration.wet_v)
    IN  IF p = NoReading THEN NoReading ELSE p

\* ----------------------------------------------------------- processes

Alive(p) == p \in Procs /\ lpc[p] \notin {"unborn", "exited"}

\* The supervisor after ProcessManager.__init__
SupInit ==
    /\ self_lock = 0
    /\ self_proc = NoProc
    /\ pc = [t \in Threads |-> "done"]
    /\ ctx = [t \in Threads |-> "none"]
    /\ ret = [t \in Threads |-> "none"]
    /\ tgt = [t \in Threads |-> NoProc]
    /\ pre = [t \in Threads |-> NoProc]
    /\ nspawned = 0
    /\ nops = 0

\* Nothing has run yet: no signal pending, the relay pin not set up, no
\* status marker, empty tables.
LoopInit ==
    /\ pend = [p \in Procs |-> "none"]
    /\ soil_voltage = [p \in Procs |-> NoReading]
    /\ pin = "INPUT"
    /\ status_file = "absent"
    /\ ncycles = 0
    /\ logs = <<>>
    /\ relay_log = <<>>
    /\ exc = [p \in Procs |-> "none"]
    /\ guard_lost = FALSE
    /\ logs_seq = 0
    /\ relay_seq = 0

\* No calibration file, no function called yet.
NoCall == [call |-> "none", outcome |-> "none", voltage |-> NoReading,
           dry_v |-> 0, wet_v |-> 0]

\* No save of the calibration file under way or done
NoWrite == [state |-> "idle", call |-> "none", voltage |-> NoReading,
            old |-> CalFile("missing", 0, 0), new |-> CalFile("missing", 0, 0)]

\* No conversion and no database function called yet
NoConversion == [called |-> FALSE, percent |-> 0, percent2 |-> 0, swapped |-> 0]
NoneLimit == [none |-> TRUE, n |-> 0]
NoQuery == [call |-> "none", ids |-> <<>>, limit |-> NoneLimit, order |-> "none",
            outcome |-> "none", rows |-> <<>>, before |-> <<>>]

\* No relay driver call, no toggle request, no ADC read yet
Requests == 1..NumRequests
NoRelayCall == [set |-> "none", get |-> "none"]
NoRequest == [pc |-> "none", handler |-> "none", state |-> "none",
              outcome |-> "none"]
NoRead == [pc |-> "none", taken |-> <<>>, slept_after |-> 0, raw_from |-> 0,
           voltage_from |-> 0, raw |-> NoReading, voltage |-> NoReading]

IoInit ==
    /\ relay_ret = NoRelayCall
    /\ req = [r \in Requests |-> NoRequest]
    /\ adc = NoRead

CallsInit ==
    /\ conv_in = [voltage |-> NoReading, voltage2 |-> NoReading]
    /\ conv_ret = NoConversion
    /\ db_ret = NoQuery
    /\ IoInit

FnInit ==
    /\ cal_file = CalFile("missing", 0, 0)
    /\ cal_ret = NoCall
    /\ cal_write = NoWrite
    /\ elig_in = NoReading
    /\ elig_ret = "none"
    /\ CallsInit

Init ==
    /\ SupInit
    /\ LoopInit
    /\ lpc = [p \in Procs |-> "unborn"]
    /\ guard = GuardAbsent
    /\ watered_at = GuardAbsent
    /\ now = 0
    /\ faulty = {}
    /\ FnInit

\* --------------------------------------------------------- supervisor
\* Frame conditions
LogUnchanged == UNCHANGED logVars

\* The operation of thread t ends with result r; leaving `with self._lock`
\* (by return or by exception) releases the lock if t holds it.
Finish(t, r) ==
    /\ pc' = [pc EXCEPT ![t] = "done"]
    /\ ret' = [ret EXCEPT ![t] = r]
    /\ self_lock' = IF self_lock = t THEN 0 ELSE self_lock

\* An uncaught exception (AttributeError on None, OSError) leaves the operation.
Raise(t) == Finish(t, "raised")

Goto(t, l) ==
    /\ pc' = [pc EXCEPT ![t] = l]
    /\ UNCHANGED <<ret, self_lock>>

\* Mutant: is_running() waits for the lock unless its caller holds it.
CanEnterIsRunningLocked(t) == self_lock \in {0, t}

\* is_running() takes no lock: a caller enters it whatever the lock's state.
CanEnterIsRunning(t) == TRUE

\* A thread calls is_running() directly (the status query).
CallIsRunning(t) ==
    /\ pc[t] = "done"
    /\ ctx' = [ctx EXCEPT ![t] = "status"]
    /\ pc' = [pc EXCEPT ![t] = "ir1"]
    /\ ret' = [ret EXCEPT ![t] = "none"]
    /\ tgt' = [tgt EXCEPT ![t] = NoProc]
    /\ pre' = [pre EXCEPT ![t] = NoProc]
    /\ nops < MaxOps
    /\ nops' = nops + 1
    /\ UNCHANGED <<self_lock, self_proc, nspawned>>
    /\ LogUnchanged

\* A thread calls start() or stop(): it first waits for the lock.
CallStart(t) ==
    /\ pc[t] = "done"
    /\ ctx' = [ctx EXCEPT ![t] = "start1"]
    /\ pc' = [pc EXCEPT ![t] = "lockwait"]
    /\ ret' = [ret EXCEPT ![t] = "none"]
    /\ tgt' = [tgt EXCEPT ![t] = NoProc]
    /\ pre' = [pre EXCEPT ![t] = NoProc]
    /\ nops < MaxOps
    /\ nops' = nops + 1
    /\ UNCHANGED <<self_lock, self_proc, nspawned>>
    /\ LogUnchanged

CallStop(t) ==
    /\ pc[t] = "done"
    /\ ctx' = [ctx EXCEPT ![t] = "stop"]
    /\ pc' = [pc EXCEPT ![t] = "lockwait"]
    /\ ret' = [ret EXCEPT ![t] = "none"]
    /\ tgt' = [tgt EXCEPT ![t] = NoProc]
    /\ pre' = [pre EXCEPT ![t] = NoProc]
    /\ nops < MaxOps
    /\ nops' = nops + 1
    /\ UNCHANGED <<self_lock, self_proc, nspawned>>
    /\ LogUnchanged

\* with self._lock: (threading.Lock, not re-entrant). pre[t] remembers the
\* live process the handle held at that moment.
AcquireLock(t) ==
    /\ pc[t] = "lockwait"
    /\ self_lock = 0
    /\ self_lock' = t
    /\ pc' = [pc EXCEPT ![t] = "ir1"]
    /\ pre' = [pre EXCEPT ![t] = IF Alive(self_proc) THEN self_proc ELSE NoProc]
    /\ UNCHANGED <<self_proc, ctx, ret, tgt, nspawned, nops>>
    /\ LogUnchanged

\* is_running returned True to its caller
IsRunningTrue(t) ==
    CASE ctx[t] = "status" -> Finish(t, "True")
      [] ctx[t] = "start1" -> Finish(t, "already_running")
      [] ctx[t] = "start2" -> Finish(t, "started")
      [] ctx[t] = "stop"   -> Goto(t, "st_term")

\* is_running returned False to its caller
IsRunningFalse(t) ==
    CASE ctx[t] = "status" -> Finish(t, "False")
      [] ctx[t] = "start1" -> Goto(t, "spawn")
      [] ctx[t] = "start2" -> Finish(t, "did_not_stay_running")
      [] ctx[t] = "stop"   -> Finish(t, "not_running")

\* `if self._proc` : the first load of the handle
IsRunningTest(t) ==
    /\ pc[t] = "ir1"
    /\ CanEnterIsRunning(t)
    /\ Goto(t, IF self_proc = NoProc THEN "ir3" ELSE "ir2")
    /\ UNCHANGED <<self_proc, ctx, tgt, pre, nspawned, nops>>
    /\ LogUnchanged

\* `self._proc.poll() is None` : the second load of the handle, then poll
IsRunningPoll(t) ==
    /\ pc[t] = "ir2"
    /\ IF self_proc = NoProc THEN Raise(t)
       ELSE IF Alive(self_proc) THEN IsRunningTrue(t)
       ELSE Goto(t, "ir3")
    /\ UNCHANGED <<self_proc, ctx, tgt, pre, nspawned, nops>>
    /\ LogUnchanged

\* `self._proc = None; return False`
IsRunningClear(t) ==
    /\ pc[t] = "ir3"
    /\ self_proc' = NoProc
    /\ IsRunningFalse(t)
    /\ UNCHANGED <<ctx, tgt, pre, nspawned, nops>>
    /\ LogUnchanged

\* start(), lines 30-43: open the log file, Popen, self._proc = proc
StartSpawn(t) ==
    /\ pc[t] = "spawn"
    /\ \/ /\ Raise(t)                        \* makedirs / open raised
          /\ UNCHANGED <<self_proc, tgt, nspawned, lpc>>
       \/ /\ Finish(t, "failed_to_start")    \* Popen raised, caught
          /\ UNCHANGED <<self_proc, tgt, nspawned, lpc>>
       \/ /\ nspawned < MaxProcs
          /\ nspawned' = nspawned + 1
          /\ lpc' = [lpc EXCEPT ![nspawned + 1] = "boot"]
          /\ self_proc' = nspawned + 1
          /\ tgt' = [tgt EXCEPT ![t] = nspawned + 1]
          /\ Goto(t, "grace")
    /\ UNCHANGED <<ctx, pre, nops>>
    /\ UNCHANGED <<pend, soil_voltage, pin, guard, now, status_file, ncycles>>
    /\ UNCHANGED histVars

\* time.sleep(0.5) ends; the second is_running() call follows
StartGrace(t) ==
    /\ pc[t] = "grace"
    /\ ctx' = [ctx EXCEPT ![t] = "start2"]
    /\ Goto(t, "ir1")
    /\ UNCHANGED <<self_proc, tgt, pre, nspawned, nops>>
    /\ LogUnchanged

\* Popen.terminate / Popen.kill: send_signal polls first and sends nothing
\* to a process that has exited.
SendSignal(p, s) ==
    pend' = IF Alive(p) /\ pend[p] # "KILL" THEN [pend EXCEPT ![p] = s] ELSE pend

\* stop(), lines 56-58: pid = self._proc.pid; self._proc.terminate()
StopTerminate(t) ==
    /\ pc[t] = "st_term"
    /\ IF self_proc = NoProc
       THEN Raise(t) /\ UNCHANGED <<tgt, pend>>
       ELSE /\ tgt' = [tgt EXCEPT ![t] = self_proc]
            /\ SendSignal(self_proc, "TERM")
            /\ Goto(t, "st_wait")
    /\ UNCHANGED <<self_proc, ctx, pre, nspawned, nops>>
    /\ UNCHANGED <<lpc, soil_voltage, pin, guard, now, status_file, ncycles>>
    /\ UNCHANGED histVars

\* stop(), line 59: self._proc.wait(timeout=timeout) loads the handle
StopWaitEnter(t) ==
    /\ pc[t] = "st_wait"
    /\ IF self_proc = NoProc THEN Raise(t) ELSE Goto(t, "st_waiting")
    /\ UNCHANGED <<self_proc, ctx, tgt, pre, nspawned, nops>>
    /\ LogUnchanged

\* wait() returns: the process has exited within the timeout
StopWaitReturn(t) ==
    /\ pc[t] = "st_waiting"
    /\ ~Alive(tgt[t])
    /\ Goto(t, "st_clear")
    /\ UNCHANGED <<self_proc, ctx, tgt, pre, nspawned, nops>>
    /\ LogUnchanged

\* wait() raises TimeoutExpired: the process is still there
StopWaitTimeout(t) ==
    /\ pc[t] = "st_waiting"
    /\ Alive(tgt[t])
    /\ Goto(t, "st_kill")
    /\ UNCHANGED <<self_proc, ctx, tgt, pre, nspawned, nops>>
    /\ LogUnchanged

\* stop(), lines 60-61: except TimeoutExpired: self._proc.kill()
StopKill(t) ==
    /\ pc[t] = "st_kill"
    /\ IF self_proc = NoProc
       THEN Raise(t) /\ UNCHANGED pend
       ELSE SendSignal(self_proc, "KILL") /\ Goto(t, "st_clear")
    /\ UNCHANGED <<self_proc, ctx, tgt, pre, nspawned, nops>>
    /\ UNCHANGED <<lpc, soil_voltage, pin, guard, now, status_file, ncycles>>
    /\ UNCHANGED histVars

\* stop(), lines 63-64: self._proc = None; return True, "Stopped"
StopClear(t) ==
    /\ pc[t] = "st_clear"
    /\ self_proc' = NoProc
    /\ Finish(t, "stopped")
    /\ UNCHANGED <<ctx, tgt, pre, nspawned, nops>>
    /\ LogUnchanged

\* ------------------------------------------------- operating system
SupUnchanged == UNCHANGED supVars

\* A pending SIGTERM or SIGKILL is delivered. logger.py installs no handler
\* for SIGTERM, so both end the process on the spot: no except or finally
\* block runs, and the relay pin keeps the level it was driven to.
DeliverSignal(p) ==
    /\ Alive(p)
    /\ pend[p] # "none"
    /\ lpc' = [lpc EXCEPT ![p] = "exited"]
    /\ pend' = [pend EXCEPT ![p] = "none"]
    /\ UNCHANGED <<soil_voltage, pin, guard, now, status_file, ncycles>>
    /\ UNCHANGED histVars
    /\ SupUnchanged

\* -------------------------------------------- sampling process (logger.py)

\* relays.set_relay_state: active low, True drives the pin LOW
set_relay_state(state) == IF state THEN "LOW" ELSE "HIGH"

\* The pump is energized exactly while its pin is driven LOW.
PumpOn == pin = "LOW"

\* The pin after a call of set_relay_state: driven to the level asked for, or
\* left as it was when GPIO.output raised RuntimeError (caught and printed,
\* relays.py lines 27-28) or GPIO is None (lines 22-24).
RelayOutcomes(state) == {set_relay_state(state), pin}

\* The sensors of a cycle besides the soil-moisture ADC; each read function
\* catches its failure and returns None.
OtherSensors == {"lux", "dht22", "ds18b20"}

\* What a read of sensor s returns in this run (1 stands for a value).
read_sensor(s) == IF s \in faulty THEN NoReading ELSE 1

\* Lines 106-117 and 124-132: the row run_logging_cycle inserts for the soil
\* voltage it read in this cycle.
LogRow(voltage) ==
    [lux |-> read_sensor("lux"),
     dht22_air_temp |-> read_sensor("dht22"),
     dht22_humidity |-> read_sensor("dht22"),
     ds18b20_soil_temp |-> read_sensor("ds18b20"),
     soil_raw |-> voltage,
     soil_voltage |-> voltage,
     soil_percent |-> soil_percent_of(voltage)]

\* ------------------------------------------------------------ database
\* A table is the sequence of its rows in insertion order; its ids grow
\* along the sequence.
Ids(table) == {table[i].id : i \in 1..Len(table)}
MaxOf(S) == IF S = {} THEN 0 ELSE CHOOSE m \in S : \A x \in S : x <= m

\* INTEGER PRIMARY KEY AUTOINCREMENT (database.py lines 54 and 68): the id
\* of a new row is one more than the larger of the table's sqlite_sequence
\* entry and the largest id in the table.
NextId(table, seq) == Max(seq, MaxOf(Ids(table))) + 1

\* The row as stored, with the id the table gave it
Stored(id, row) == [id |-> id] @@ row

\* run_logging_cycle lines 86-99: status marker, initialize_relays (pins are
\* set up as outputs, relays OFF), initialize_database; the loop follows.
LoggerBoot(p) ==
    /\ lpc[p] = "boot"
    /\ status_file' = "RUNNING"
    /\ pin' = set_relay_state(FALSE)
    /\ lpc' = [lpc EXCEPT ![p] = "cycle"]
    /\ UNCHANGED <<pend, soil_voltage, guard, now, ncycles>>
    /\ UNCHANGED histVars
    /\ SupUnchanged

\* The process ends before its loop: a failed import, or initialize_relays
\* or initialize_database raising outside the try block (no finally runs).
LoggerBootFails(p) ==
    /\ lpc[p] = "boot"
    /\ lpc' = [lpc EXCEPT ![p] = "exited"]
    /\ pend' = [pend EXCEPT ![p] = "none"]
    /\ \/ UNCHANGED <<status_file, pin>>                       \* import failed
       \/ status_file' = "RUNNING" /\ UNCHANGED pin            \* initialize_relays raised
       \/ status_file' = "RUNNING" /\ pin' = set_relay_state(FALSE) \* initialize_database raised
    /\ UNCHANGED <<soil_voltage, guard, now, ncycles>>
    /\ UNCHANGED histVars
    /\ SupUnchanged

\* Lines 103-120 up to the watering sleep: read the sensors, convert, round,
\* decide; if eligible perform_watering_cycle energizes the pump and sleeps.
LoggerCycle(p) ==
    /\ lpc[p] = "cycle"
    /\ ncycles < MaxCycles
    /\ ncycles' = ncycles + 1
    /\ \E v \in SoilVoltages :
          /\ soil_voltage' = [soil_voltage EXCEPT ![p] = v]
          /\ IF should_initiate_watering(soil_percent_of(v), guard, now)
             THEN /\ pin' \in RelayOutcomes(TRUE)
                  /\ lpc' = [lpc EXCEPT ![p] = "watering"]
             ELSE /\ UNCHANGED pin
                  /\ lpc' = [lpc EXCEPT ![p] = "insert"]
    /\ UNCHANGED <<pend, guard, now, status_file>>
    /\ UNCHANGED histVars
    /\ SupUnchanged

\* perform_watering_cycle lines 73-80: the sleep ends, the pump is switched
\* off, the guard timestamp is written (an IOError is logged and ignored).
\* open(..., "w") may fail and leave the file as it was, or succeed and
\* truncate it before write / close fails, which leaves it empty.
LoggerWateringDone(p) ==
    /\ lpc[p] = "watering"
    /\ now' = now + WATERING_DURATION_SECONDS
    /\ pin' \in RelayOutcomes(FALSE)
    /\ \/ guard' = now' /\ UNCHANGED guard_lost
       \/ UNCHANGED guard /\ guard_lost' = TRUE       \* open() raised IOError
       \/ guard' = GuardCorrupt /\ guard_lost' = TRUE \* write / close raised
    /\ watered_at' = now'
    /\ lpc' = [lpc EXCEPT ![p] = "insert"]
    /\ UNCHANGED <<pend, soil_voltage, status_file, ncycles>>
    /\ UNCHANGED <<faulty, logs, relay_log, exc, logs_seq, relay_seq>>
    /\ SupUnchanged

\* Lines 123-142: insert the row, commit, log, clean up old images.
LoggerInsert(p) ==
    /\ lpc[p] = "insert"
    /\ \/ /\ logs' = Append(logs, Stored(NextId(logs, logs_seq),
                                          LogRow(soil_voltage[p])))
          /\ logs_seq' = NextId(logs, logs_seq)
          /\ lpc' = [lpc EXCEPT ![p] = "sleep"]
          /\ UNCHANGED exc
       \/ /\ lpc' = [lpc EXCEPT ![p] = "finally"]   \* execute/commit raised sqlite3.Error
          /\ exc' = [exc EXCEPT ![p] = "sqlite3.Error"]
          /\ UNCHANGED <<logs, logs_seq>>
    /\ soil_voltage' = [soil_voltage EXCEPT ![p] = NoReading]
    /\ UNCHANGED <<pend, pin, guard, now, status_file, ncycles>>
    /\ UNCHANGED <<faulty, relay_log, watered_at, guard_lost, relay_seq>>
    /\ SupUnchanged

\* Line 143: time.sleep(2400) ends
LoggerSleepDone(p) ==
    /\ lpc[p] = "sleep"
    /\ now' = now + LOG_SLEEP_SECONDS
    /\ lpc' = [lpc EXCEPT ![p] = "cycle"]
    /\ UNCHANGED <<pend, soil_voltage, pin, guard, status_file, ncycles>>
    /\ UNCHANGED histVars
    /\ SupUnchanged

\* SIGINT: KeyboardInterrupt is raised where the loop stands (inside the
\* watering sleep too) and control passes to except / finally.
LoggerKeyboardInterrupt(p) ==
    /\ lpc[p] \in {"cycle", "watering", "insert", "sleep"}
    /\ lpc' = [lpc EXCEPT ![p] = "finally"]
    /\ exc' = [exc EXCEPT ![p] = "KeyboardInterrupt"]
    /\ soil_voltage' = [soil_voltage EXCEPT ![p] = NoReading]
    /\ UNCHANGED <<pend, pin, guard, now, status_file, ncycles>>
    /\ UNCHANGED <<faulty, logs, relay_log, watered_at, guard_lost,
                   logs_seq, relay_seq>>
    /\ SupUnchanged

\* Lines 147-151: GPIO.cleanup() returns the pins to inputs, the connection
\* is closed, the status marker is removed; the process ends.
LoggerFinally(p) ==
    /\ lpc[p] = "finally"
    /\ pin' = "INPUT"
    /\ status_file' = "absent"
    /\ lpc' = [lpc EXCEPT ![p] = "exited"]
    /\ pend' = [pend EXCEPT ![p] = "none"]
    /\ UNCHANGED <<soil_voltage, guard, now, ncycles>>
    /\ UNCHANGED histVars
    /\ SupUnchanged

\* ------------------------------------------------------ specification
ThreadStep(t) ==
    \/ CallIsRunning(t)
    \/ CallStart(t)
    \/ CallStop(t)
    \/ AcquireLock(t)
    \/ IsRunningTest(t)
    \/ IsRunningPoll(t)
    \/ IsRunningClear(t)
    \/ StartSpawn(t)
    \/ StartGrace(t)
    \/ StopTerminate(t)
    \/ StopWaitEnter(t)
    \/ StopWaitReturn(t)
    \/ StopWaitTimeout(t)
    \/ StopKill(t)
    \/ StopClear(t)

\* What the supervisor can see of a sampling process: it starts, it may end
\* by itself (a failed start, an interrupt), a signal ends it.
LifecycleStep(p) ==
    \/ DeliverSignal(p)
    \/ LoggerBoot(p)
    \/ LoggerBootFails(p)
    \/ LoggerKeyboardInterrupt(p)
    \/ LoggerFinally(p)

\* The iterations of the sampling loop
LoopStep(p) ==
    \/ LoggerCycle(p)
    \/ LoggerWateringDone(p)
    \/ LoggerInsert(p)
    \/ LoggerSleepDone(p)

\* The supervisor with the sampling process as a black box that stays in
\* its loop until it is interrupted or signalled.
NextSup ==
    /\ \/ \E t \in Threads : ThreadStep(t)
       \/ \E p \in Procs : LifecycleStep(p)
    /\ UNCHANGED fnVars

SpecSup == Init /\ [][NextSup]_vars

\* The whole system: supervisor, sampling loop, signals.
Next ==
    /\ \/ \E t \in Threads : ThreadStep(t)
       \/ \E p \in Procs : LifecycleStep(p)
       \/ \E p \in Procs : LoopStep(p)
    /\ UNCHANGED fnVars

Spec == Init /\ [][Next]_vars

\* The sampling process launched by hand (python logger.py run, lines
\* 153-175), no supervisor involved; the sensors that fail are any subset.
\* Either nothing was ever watered, or an earlier run completed a watering
\* cycle at time 0, wrote last_watering.txt, and this run starts later.
InitLog ==
    /\ SupInit
    /\ LoopInit
    /\ lpc = [p \in Procs |-> IF p = 1 THEN "boot" ELSE "unborn"]
    /\ \/ guard = GuardAbsent /\ watered_at = GuardAbsent /\ now = 0
       \/ guard = 0 /\ watered_at = 0 /\ now \in RestartAges
    /\ faulty \in SUBSET OtherSensors
    /\ FnInit

LoggerStep(p) ==
    \/ LoggerBoot(p)
    \/ LoggerBootFails(p)
    \/ LoggerKeyboardInterrupt(p)
    \/ LoggerFinally(p)

NextLog ==
    /\ \/ \E p \in Procs : LoggerStep(p)
       \/ \E p \in Procs : LoopStep(p)
    /\ UNCHANGED fnVars

SpecLog == InitLog /\ [][NextLog]_vars

\* should_initiate_watering called once on drawn inputs: a moisture value,
\* a clock value, a guard file absent or holding a timestamp of some age.
InitElig ==
    /\ SupInit
    /\ LoopInit
    /\ lpc = [p \in Procs |-> "unborn"]
    /\ watered_at = GuardAbsent
    /\ faulty = {}
    /\ cal_file = CalFile("missing", 0, 0)
    /\ cal_ret = NoCall
    /\ cal_write = NoWrite
    /\ elig_in \in EligPercents
    /\ elig_ret = "none"
    /\ CallsInit
    /\ now \in EligNows
    /\ guard \in {GuardAbsent, GuardCorrupt, GuardUnreadable}
                 \cup {now - a : a \in EligAges}

EvaluateEligibility ==
    /\ elig_ret = "none"
    /\ elig_ret' = IF should_initiate_watering(elig_in, guard, now)
                   THEN "True" ELSE "False"
    /\ UNCHANGED <<calVars, elig_in, convVars, db_ret, ioVars>>
    /\ LogUnchanged
    /\ SupUnchanged

NextElig == EvaluateEligibility

SpecElig == InitElig /\ [][NextElig]_vars

\* The calibration functions called on a calibration file in any condition.
InitCal ==
    /\ SupInit
    /\ LoopInit
    /\ lpc = [p \in Procs |-> "unborn"]
    /\ guard = GuardAbsent
    /\ watered_at = GuardAbsent
    /\ now = 0
    /\ faulty = {}
    /\ cal_file \in CalFiles
    /\ cal_ret = NoCall
    /\ cal_write = NoWrite
    /\ elig_in = NoReading
    /\ elig_ret = "none"
    /\ CallsInit

\* load_voltage_calibration() is called
LoadCalibration ==
    /\ LET r == load_voltage_calibration(cal_file)
       IN  cal_ret' = [call |-> "load", outcome |-> r.outcome,
                       voltage |-> NoReading, dry_v |-> r.dry_v, wet_v |-> r.wet_v]
    /\ UNCHANGED <<cal_file, cal_write, eligVars, convVars, db_ret, ioVars>>
    /\ LogUnchanged
    /\ SupUnchanged

\* calibrate_soil_moisture_sensor(dry, wet), lines 245-258: read the
\* voltage, give up if the read failed, load the profile, overwrite the
\* bounds asked for, open the file for writing. open(..., "w") truncates:
\* from here until the dump the file is empty, which is no JSON. cal_ret
\* keeps the voltage read and the profile loaded; cal_write the file as it
\* was and the profile about to be dumped.
Calibrate(dry, wet) ==
    \E voltage \in SoilVoltages :
        LET r == load_voltage_calibration(cal_file)
            name == CASE dry /\ wet -> "calibrate_both"
                      [] dry /\ ~wet -> "calibrate_dry"
                      [] ~dry /\ wet -> "calibrate_wet"
                      [] OTHER -> "calibrate"
        IN  /\ cal_write.state # "open"
            /\ IF voltage = NoReading
               THEN /\ cal_ret' = [call |-> name, outcome |-> "returned",
                                   voltage |-> voltage, dry_v |-> 0, wet_v |-> 0]
                    /\ UNCHANGED <<cal_file, cal_write>>
               ELSE /\ cal_ret' = [call |-> name, outcome |-> r.outcome,
                                   voltage |-> voltage,
                                   dry_v |-> r.dry_v, wet_v |-> r.wet_v]
                    /\ IF r.outcome = "raised"
                       THEN UNCHANGED <<cal_file, cal_write>>
                       ELSE /\ cal_file' = CalFile("not_json", 0, 0)
                            /\ cal_write' =
                                  [state |-> "open", call |-> name,
                                   voltage |-> voltage, old |-> cal_file,
                                   new |-> CalFile("valid",
                                             IF dry THEN voltage ELSE r.dry_v,
                                             IF wet THEN voltage ELSE r.wet_v)]
            /\ UNCHANGED <<eligVars, convVars, db_ret, ioVars>>
            /\ LogUnchanged
            /\ SupUnchanged

\* Lines 259-260: json.dump writes the profile and the file is closed.
CalibrateDump ==
    /\ cal_write.state = "open"
    /\ cal_file' = cal_write.new
    /\ cal_write' = [cal_write EXCEPT !.state = "closed"]
    /\ UNCHANGED <<cal_ret, eligVars, convVars, db_ret, ioVars>>
    /\ LogUnchanged
    /\ SupUnchanged

\* One operator calibrating; loads (the sampling loop's conversions) at any
\* moment, also between the truncation and the dump of a save.
NextCal ==
    \/ LoadCalibration
    \/ \E dry \in BOOLEAN : \E wet \in BOOLEAN : Calibrate(dry, wet)
    \/ CalibrateDump

SpecCal == InitCal /\ [][NextCal]_vars

\* ------------------------------------------------- database functions
\* The limit argument of a query: an integer or None
IntLimit(n) == [none |-> FALSE, n |-> n]
Limits == {NoneLimit, IntLimit(-1), IntLimit(0), IntLimit(2), IntLimit(5)}

\* An ID specification is a comma-separated string; each part is one id
\* or a range "lo-hi".
Single(id) == [lo |-> id, hi |-> id, range |-> FALSE]
Range(lo, hi) == [lo |-> lo, hi |-> hi, range |-> TRUE]
IdSpecs == { <<Single(1), Single(3), Range(5, 7)>>,
             <<Single(2)>>,
             <<Range(2, 4)>>,
             <<Single(4), Single(6)>> }

\* delete_sql_data lines 272-278: a part with '-' is expanded to
\* range(start, end + 1), any other part is int(part).
ParseRanges(ids) ==
    UNION { IF ids[i].range THEN ids[i].lo .. ids[i].hi ELSE {ids[i].lo}
            : i \in 1..Len(ids) }

\* delete_logs_by_id line 186 and api_delete_logs line 268: only the parts
\* for which str.isdigit() holds are kept; "5-7" is not one of them.
ParseDigits(ids) == { ids[i].lo : i \in {j \in 1..Len(ids) : ~ids[j].range} }

\* DELETE FROM logs WHERE id IN (id_list)
DeleteRows(table, id_list) == SelectSeq(table, LAMBDA r : r.id \notin id_list)

Reverse(s) == [i \in 1..Len(s) |-> s[Len(s) + 1 - i]]

\* The query as if LIMIT were applied in ascending order and the rows
\* ordered afterwards.
SelectLowestFirst(table, n, descending) ==
    LET taken == IF n < 0 THEN table ELSE SubSeq(table, 1, Min(n, Len(table)))
    IN  IF descending THEN Reverse(taken) ELSE taken

\* SELECT * FROM table ORDER BY id ASC|DESC LIMIT n: the rows in the order
\* asked for, then the first n of them; a negative n is no limit.
SelectOrdered(table, n, descending) ==
    LET ordered == IF descending THEN Reverse(table) ELSE table
    IN  IF n < 0 THEN ordered ELSE SubSeq(ordered, 1, Min(n, Len(ordered)))

\* The result of execute(... LIMIT ?, (limit,)) and fetchall(): None bound
\* to LIMIT makes execute raise (datatype mismatch).
Fetch(table, limit, descending) ==
    IF limit.none
    THEN [outcome |-> "sqlite3.IntegrityError", rows |-> <<>>]
    ELSE [outcome |-> "rows", rows |-> SelectOrdered(table, limit.n, descending)]

Called(call, ids, limit, order, outcome, rows, before) ==
    [call |-> call, ids |-> ids, limit |-> limit, order |-> order,
     outcome |-> outcome, rows |-> rows, before |-> before]

RelayRow(action) == [relay_name |-> "RELAY1", action |-> action, source |-> "web"]

InitDb ==
    /\ SupInit
    /\ pend = [p \in Procs |-> "none"]
    /\ soil_voltage = [p \in Procs |-> NoReading]
    /\ pin = "INPUT"
    /\ status_file = "absent"
    /\ ncycles = 0
    /\ exc = [p \in Procs |-> "none"]
    /\ guard_lost = FALSE
    /\ lpc = [p \in Procs |-> "unborn"]
    /\ guard = GuardAbsent
    /\ watered_at = GuardAbsent
    /\ now = 0
    /\ faulty = {}
    /\ FnInit
    /\ \E n \in {0, InitRows} :
          /\ logs = [i \in 1..n |-> Stored(i, LogRow(900))]
          /\ logs_seq = n
    /\ relay_log = <<>>
    /\ relay_seq = 0

DbFrame ==
    /\ UNCHANGED <<lpc, pend, soil_voltage, pin, guard, now, status_file,
                   ncycles, faulty, exc, watered_at, guard_lost>>
    /\ UNCHANGED <<calVars, eligVars, convVars, ioVars>>
    /\ SupUnchanged

\* database.insert_log: the row is stored, or sqlite3.Error is printed
InsertLog ==
    /\ NextId(logs, logs_seq) <= MaxLogId
    /\ \/ /\ logs' = Append(logs, Stored(NextId(logs, logs_seq), LogRow(900)))
          /\ logs_seq' = NextId(logs, logs_seq)
          /\ db_ret' = Called("insert_log", <<>>, NoneLimit, "none",
                              "stored", <<>>, logs)
       \/ /\ UNCHANGED <<logs, logs_seq>>
          /\ db_ret' = Called("insert_log", <<>>, NoneLimit, "none",
                              "sqlite3.Error printed", <<>>, logs)
    /\ UNCHANGED <<relay_log, relay_seq>>
    /\ DbFrame

\* database.insert_relay_event
InsertRelayEvent(action) ==
    /\ NextId(relay_log, relay_seq) <= MaxRelayId
    /\ relay_log' = Append(relay_log,
                           Stored(NextId(relay_log, relay_seq), RelayRow(action)))
    /\ relay_seq' = NextId(relay_log, relay_seq)
    /\ db_ret' = Called("insert_relay_event", <<>>, NoneLimit, "none",
                        "stored", <<>>, relay_log)
    /\ UNCHANGED <<logs, logs_seq>>
    /\ DbFrame

\* database.get_logs(limit, order)
GetLogs(limit, order) ==
    /\ LET r == Fetch(logs, limit, order = "DESC")
       IN  db_ret' = Called("get_logs", <<>>, limit, order,
                            r.outcome, r.rows, logs)
    /\ UNCHANGED <<logs, logs_seq, relay_log, relay_seq>>
    /\ DbFrame

\* database.get_relay_log(limit)
GetRelayLog(limit) ==
    /\ LET r == Fetch(relay_log, limit, TRUE)
       IN  db_ret' = Called("get_relay_log", <<>>, limit, "DESC",
                            r.outcome, r.rows, relay_log)
    /\ UNCHANGED <<logs, logs_seq, relay_log, relay_seq>>
    /\ DbFrame

\* database.delete_sql_data(ids=...)
DeleteSqlData(ids) ==
    /\ logs' = DeleteRows(logs, ParseRanges(ids))
    /\ db_ret' = Called("delete_sql_data", ids, NoneLimit, "none",
                        "deleted", <<>>, logs)
    /\ UNCHANGED <<logs_seq, relay_log, relay_seq>>
    /\ DbFrame

\* database.delete_sql_data(delete_all=True): the rows and the table's
\* sqlite_sequence entry are deleted.
DeleteSqlDataAll ==
    /\ logs' = <<>>
    /\ logs_seq' = 0
    /\ db_ret' = Called("delete_sql_data(delete_all)", <<>>, NoneLimit, "none",
                        "deleted", <<>>, logs)
    /\ UNCHANGED <<relay_log, relay_seq>>
    /\ DbFrame

\* database.delete_logs_by_id(ids) with a string
DeleteLogsById(ids) ==
    /\ LET id_list == ParseDigits(ids)
       IN  IF id_list = {}
           THEN /\ UNCHANGED logs
                /\ db_ret' = Called("delete_logs_by_id", ids, NoneLimit, "none",
                                    "No valid IDs to delete.", <<>>, logs)
           ELSE /\ logs' = DeleteRows(logs, id_list)
                /\ db_ret' = Called("delete_logs_by_id", ids, NoneLimit, "none",
                                    "deleted", <<>>, logs)
    /\ UNCHANGED <<logs_seq, relay_log, relay_seq>>
    /\ DbFrame

\* webserver.api_delete_logs with {"ids": "<id specification>"}
ApiDeleteLogs(ids) ==
    /\ LET id_list == ParseDigits(ids)
       IN  IF id_list = {}
           THEN /\ UNCHANGED logs
                /\ db_ret' = Called("api_delete_logs", ids, NoneLimit, "none",
                                    "400", <<>>, logs)
           ELSE /\ logs' = DeleteRows(logs, id_list)
                /\ db_ret' = Called("api_delete_logs", ids, NoneLimit, "none",
                                    "deleted", <<>>, logs)
    /\ UNCHANGED <<logs_seq, relay_log, relay_seq>>
    /\ DbFrame

\* webserver.api_delete_logs with {"ids": "all"}: DELETE FROM logs only
ApiDeleteLogsAll ==
    /\ logs' = <<>>
    /\ db_ret' = Called("api_delete_logs(all)", <<>>, NoneLimit, "none",
                        "deleted", <<>>, logs)
    /\ UNCHANGED <<logs_seq, relay_log, relay_seq>>
    /\ DbFrame

NextDb ==
    \/ InsertLog
    \/ \E action \in {"ON", "OFF"} : InsertRelayEvent(action)
    \/ \E limit \in Limits, order \in {"ASC", "DESC"} : GetLogs(limit, order)
    \/ \E limit \in Limits : GetRelayLog(limit)
    \/ \E ids \in IdSpecs : DeleteSqlData(ids)
    \/ DeleteSqlDataAll
    \/ \E ids \in IdSpecs : DeleteLogsById(ids)
    \/ \E ids \in IdSpecs : ApiDeleteLogs(ids)
    \/ ApiDeleteLogsAll

SpecDb == InitDb /\ [][NextDb]_vars

\* convert_voltage_to_soil_percentage called on drawn voltages with a
\* drawn profile in the calibration file. conv_ret keeps the result for
\* each voltage and the result for the first one with the pair swapped.
InitConv ==
    /\ SupInit
    /\ LoopInit
    /\ lpc = [p \in Procs |-> "unborn"]
    /\ guard = GuardAbsent
    /\ watered_at = GuardAbsent
    /\ now = 0
    /\ faulty = {}
    /\ cal_file \in {CalFile("valid", d, w) : d \in ConvVolts, w \in ConvVolts}
    /\ cal_ret = NoCall
    /\ cal_write = NoWrite
    /\ elig_in = NoReading
    /\ elig_ret = "none"
    /\ conv_in \in [voltage : ConvInputs, voltage2 : ConvInputs]
    /\ conv_ret = NoConversion
    /\ db_ret = NoQuery
    /\ IoInit

\* Lines 83-85: the calibration is loaded on every call
ConvertWith(voltage, file) ==
    LET calibration == load_voltage_calibration(file)
    IN  convert_voltage_to_soil_percentage(
            voltage, calibration.dry_v, calibration.wet_v)

ConvertVoltage ==
    /\ ~conv_ret.called
    /\ conv_ret' =
          [called |-> TRUE,
           percent |-> ConvertWith(conv_in.voltage, cal_file),
           percent2 |-> ConvertWith(conv_in.voltage2, cal_file),
           swapped |-> ConvertWith(conv_in.voltage,
                           CalFile("valid", cal_file.wet_v, cal_file.dry_v))]
    /\ UNCHANGED <<calVars, eligVars, conv_in, db_ret, ioVars>>
    /\ LogUnchanged
    /\ SupUnchanged

NextConv == ConvertVoltage

SpecConv == InitConv /\ [][NextConv]_vars

\* ------------------------------------------------- relay driver, toggles
Bool(b) == IF b THEN "True" ELSE "False"

\* relays.get_relay_state: GPIO.input(relay_pin) == GPIO.LOW; False when
\* GPIO is None or GPIO.input raises RuntimeError (channel not set up).
get_relay_state == pin = "LOW"

\* The state of the process that serves the requests: the pins set up by
\* hardware.initialize (outputs, HIGH) or not set up at all; empty tables.
InitRelay ==
    /\ SupInit
    /\ pend = [p \in Procs |-> "none"]
    /\ soil_voltage = [p \in Procs |-> NoReading]
    /\ pin \in {"INPUT", "HIGH"}
    /\ status_file = "absent"
    /\ ncycles = 0
    /\ logs = <<>>
    /\ relay_log = <<>>
    /\ exc = [p \in Procs |-> "none"]
    /\ guard_lost = FALSE
    /\ logs_seq = 0
    /\ relay_seq = 0
    /\ lpc = [p \in Procs |-> "unborn"]
    /\ guard = GuardAbsent
    /\ watered_at = GuardAbsent
    /\ now = 0
    /\ faulty = {}
    /\ FnInit

RelayFrame ==
    /\ UNCHANGED <<lpc, pend, soil_voltage, guard, now, status_file, ncycles,
                   faulty, logs, exc, watered_at, guard_lost, logs_seq>>
    /\ UNCHANGED <<calVars, eligVars, convVars, db_ret, adc>>
    /\ SupUnchanged

NoToggleOpen == \A r \in Requests : req[r].pc \in {"none", "done"}

\* A direct call of relays.set_relay_state(pin, state)
SetRelayState(state) ==
    /\ NoToggleOpen
    /\ pin' \in RelayOutcomes(state)
    /\ relay_ret' = [set |-> Bool(state), get |-> "none"]
    /\ UNCHANGED <<req, relay_log, relay_seq>>
    /\ RelayFrame

\* A direct call of relays.get_relay_state(pin)
GetRelayState ==
    /\ NoToggleOpen
    /\ relay_ret' = [relay_ret EXCEPT !.get = Bool(get_relay_state)]
    /\ UNCHANGED <<pin, req, relay_log, relay_seq>>
    /\ RelayFrame

\* A toggle request arrives at one of the two routes; each request is
\* served by a thread of its own.
ToggleBegin(r, handler, state) ==
    /\ req[r].pc = "none"
    /\ req' = [req EXCEPT ![r] = [pc |-> "set", handler |-> handler,
                                  state |-> Bool(state), outcome |-> "none"]]
    /\ UNCHANGED <<pin, relay_ret, relay_log, relay_seq>>
    /\ RelayFrame

\* api_toggle_relay line 235, toggle_relay line 292: set_relay_state
ToggleSet(r) ==
    /\ req[r].pc = "set"
    /\ pin' \in RelayOutcomes(req[r].state = "True")
    /\ req' = [req EXCEPT ![r].pc = "record"]
    /\ UNCHANGED <<relay_ret, relay_log, relay_seq>>
    /\ RelayFrame

\* api_toggle_relay line 237, toggle_relay line 296: the event is handed to
\* database.insert_relay_log_event, a name database.py does not define;
\* AttributeError is raised and nothing is stored. api_toggle_relay answers
\* 400 (lines 241-242), toggle_relay prints a warning and answers ok.
ToggleRecord(r) ==
    /\ req[r].pc = "record"
    /\ req' = [req EXCEPT ![r].pc = "done",
                          ![r].outcome = IF req[r].handler = "api_toggle_relay"
                                         THEN "400" ELSE "ok"]
    /\ UNCHANGED <<pin, relay_ret, relay_log, relay_seq>>
    /\ RelayFrame

NextRelay ==
    \/ \E state \in BOOLEAN : SetRelayState(state)
    \/ GetRelayState
    \/ \E r \in Requests, handler \in {"api_toggle_relay", "toggle_relay"},
          state \in BOOLEAN : ToggleBegin(r, handler, state)
    \/ \E r \in Requests : ToggleSet(r)
    \/ \E r \in Requests : ToggleRecord(r)

SpecRelay == InitRelay /\ [][NextRelay]_vars

\* ------------------------------------------------------ soil-voltage ADC
\* What a conversion of the ADC can deliver, in mV
AdcSamples == {800, 900, 1000, 1600}

\* Variant of the reader without the flush read and the settle interval
read_ads1115_unflushed(step) ==
    CASE step = "open" -> "value"
      [] step = "value" -> "voltage"
      [] step = "voltage" -> "return"
      [] OTHER -> "returned"

\* sensors._read_ads1115_stable, the statement that follows each statement:
\* channel = AnalogIn(...); _ = channel.value; time.sleep(0.05);
\* raw_value = channel.value; voltage = channel.voltage; return
read_ads1115_stable(step) ==
    CASE step = "open" -> "flush"
      [] step = "flush" -> "sleep"
      [] step = "sleep" -> "value"
      [] step = "value" -> "voltage"
      [] step = "voltage" -> "return"
      [] OTHER -> "returned"

AdcFrame ==
    /\ UNCHANGED <<calVars, eligVars, convVars, db_ret, relay_ret, req>>
    /\ LogUnchanged
    /\ SupUnchanged

\* read_soil_moisture_raw lines 60-63 and _read_ads1115_stable line 39: the
\* bus, the ADC and the channel are opened.
AdcOpen ==
    /\ adc.pc = "none"
    /\ adc' = [adc EXCEPT !.pc = "open"]
    /\ AdcFrame

\* The channel is there; the reader goes to its first statement
AdcEnter ==
    /\ adc.pc = "open"
    /\ adc' = [adc EXCEPT !.pc = read_ads1115_stable("open")]
    /\ AdcFrame

\* Line 40: _ = channel.value, a conversion whose result is dropped
AdcFlush(v) ==
    /\ adc.pc = "flush"
    /\ adc' = [adc EXCEPT !.pc = read_ads1115_stable("flush"),
                          !.taken = Append(adc.taken, v)]
    /\ AdcFrame

\* Line 41: time.sleep(0.05)
AdcSettle ==
    /\ adc.pc = "sleep"
    /\ adc' = [adc EXCEPT !.pc = read_ads1115_stable("sleep"),
                          !.slept_after = Len(adc.taken)]
    /\ AdcFrame

\* Line 42: raw_value = channel.value, a conversion
AdcReadValue(v) ==
    /\ adc.pc = "value"
    /\ adc' = [adc EXCEPT !.pc = read_ads1115_stable("value"),
                          !.taken = Append(adc.taken, v),
                          !.raw_from = Len(adc.taken) + 1,
                          !.raw = v]
    /\ AdcFrame

\* Line 43: voltage = channel.voltage, another conversion
AdcReadVoltage(v) ==
    /\ adc.pc = "voltage"
    /\ adc' = [adc EXCEPT !.pc = read_ads1115_stable("voltage"),
                          !.taken = Append(adc.taken, v),
                          !.voltage_from = Len(adc.taken) + 1,
                          !.voltage = v]
    /\ AdcFrame

\* Line 44 and read_soil_moisture_raw line 67: return raw, voltage
AdcReturn ==
    /\ adc.pc = "return"
    /\ adc' = [adc EXCEPT !.pc = "returned"]
    /\ AdcFrame

\* read_soil_moisture_raw lines 68-70: any exception on the way is caught
\* and (None, None) is returned.
AdcFail ==
    /\ adc.pc \in {"open", "flush", "value", "voltage"}
    /\ adc' = [adc EXCEPT !.pc = "returned", !.raw_from = 0,
                          !.voltage_from = 0, !.raw = NoReading,
                          !.voltage = NoReading]
    /\ AdcFrame

NextAdc ==
    \/ AdcOpen
    \/ AdcEnter
    \/ \E v \in AdcSamples : AdcFlush(v)
    \/ AdcSettle
    \/ \E v \in AdcSamples : AdcReadValue(v)
    \/ \E v \in AdcSamples : AdcReadVoltage(v)
    \/ AdcReturn
    \/ AdcFail

SpecAdc == Init /\ [][NextAdc]_vars

\* ---------------------------------------------------------------- claims
AliveProcs == {p \in Procs : Alive(p)}
InIsRunning(t) == pc[t] \in {"ir1", "ir2", "ir3"}
InStart(t) == ctx[t] \in {"start1", "start2"}
Finishes(t) == pc[t] # "done" /\ pc'[t] = "done"

\* C1: for any interleaving of start(), stop() and is_running() calls, at
\* most one spawned sampling process is alive at any time.
C1_AtMostOneProcessAlive == Cardinality(AliveProcs) <= 1

\* C2: whenever a watering cycle ends, by returning or by raising (the
\* watering sleep interrupted), the pump relay is de-energized in the state
\* that follows.
C2_PumpOffAfterWateringCycle ==
    [][\A p \in Procs :
          (lpc[p] = "watering" /\ lpc'[p] \in {"insert", "finally"})
              => pin' # "LOW"]_vars

\* C3: in a sampling cycle whose soil-voltage read failed (None), no
\* watering cycle is started.
C3_AbsentReadingNoWatering ==
    \A p \in Procs : lpc[p] = "watering" => soil_voltage[p] # NoReading

\* C4: stop() ends either with success and the process it signalled dead, or
\* with an explicit failure result; it never returns success for a process
\* that is still alive and never ends by raising.
C4_StopSuccessMeansDead ==
    \A t \in Threads :
        (ctx[t] = "stop" /\ pc[t] = "done")
            => /\ ret[t] \in {"stopped", "not_running"}
               /\ ret[t] = "stopped" => ~Alive(tgt[t])

\* C5: a sampling process that the supervisor's terminate request ends while
\* it is inside the watering sleep leaves the pump de-energized.
C5_GracefulStopShutsPumpOff ==
    [][\A p \in Procs :
          (lpc[p] = "watering" /\ pend[p] = "TERM" /\ lpc'[p] = "exited")
              => pin' # "LOW"]_vars

\* C6: start() returns success only if the spawned process is alive at the
\* check after the grace interval; if that process has exited by then,
\* start() returns (False, "did not stay running") and the handle is cleared.
C6_StartReportsLiveness ==
    [][\A t \in Threads :
          (ctx[t] = "start2" /\ Finishes(t))
              => /\ ret'[t] = "started" => Alive(tgt[t])
                 /\ ~Alive(tgt[t])
                       => (ret'[t] = "did_not_stay_running" /\ self_proc' = NoProc)]_vars

\* C7: start() that took the lock while the handle held a live process, and
\* that process stays alive, spawns nothing, returns (False, "already
\* running") and leaves the handle on that process.
C7_StartWhileRunningRejected ==
    [][\A t \in Threads :
          (InStart(t) /\ pre[t] # NoProc /\ Alive(pre[t]) /\ pc'[t] # pc[t])
              => /\ tgt'[t] = NoProc
                 /\ pc'[t] = "done"
                       => (ret'[t] = "already_running" /\ self_proc' = pre[t])]_vars

\* C8: stop() that took the lock while the handle held no live process
\* sends no signal and returns (False, "not running"); it does not raise.
C8_StopWhenNotRunning ==
    [][\A t \in Threads :
          (ctx[t] = "stop" /\ pre[t] = NoProc /\ self_lock = t /\ pc'[t] # pc[t])
              => /\ pend' = pend
                 /\ pc'[t] = "done" => ret'[t] = "not_running"]_vars

\* C9: no status query reads or clears the handle while another thread is
\* inside the critical section of start() or stop().
C9_StatusExcludedByLock ==
    [][\A t \in Threads :
          (ctx[t] = "status" /\ InIsRunning(t) /\ pc'[t] # pc[t])
              => self_lock = 0]_vars

\* The steps of is_running() a status query can be at.
StatusStep(t) == IsRunningTest(t) \/ IsRunningPoll(t) \/ IsRunningClear(t)

\* C10: a status query never waits on the supervisor lock: whatever the
\* lock's state, and also while start() sleeps its grace interval or stop()
\* waits for the process, the query's next step can be taken.
C10_StatusNeverWaits ==
    \A t \in Threads :
        ctx[t] = "status"
            => /\ pc[t] \in {"ir1", "ir2", "ir3", "done"}
               /\ pc[t] # "done" => ENABLED StatusStep(t)

\* C10 witness: a status query has returned True for the process that a
\* start() still sleeping its grace interval, lock held, has just spawned.
C10_StatusReturnedDuringGrace ==
    \E t \in Threads : \E u \in Threads :
        /\ u # t
        /\ self_lock = u /\ pc[u] = "grace" /\ tgt[u] = 1 /\ nspawned = 1
        /\ ctx[t] = "status" /\ pc[t] = "done" /\ ret[t] = "True"

\* C11: with no guard file, should_initiate_watering(m) is true exactly when
\* m is present and m < 40.0 (39.9 eligible, 40.0 not).
C11_EligibleIffBelowThreshold ==
    (elig_ret # "none" /\ guard = GuardAbsent)
        => (elig_ret = "True"
               <=> (elig_in # NoReading /\ elig_in < WATERING_THRESHOLD_PERCENT))

\* C11 witness: 39.9 % with no guard file was found eligible.
C11_JustBelowThresholdEligible ==
    elig_in = 39900 /\ guard = GuardAbsent /\ elig_ret = "True"

\* C12: with moisture below the threshold and a guard timestamp t, the check
\* is false when now - t < 3600 and true when now - t >= 3600.
C12_CooldownBoundary ==
    (elig_ret # "none" /\ guard >= 0
        /\ elig_in # NoReading /\ elig_in < WATERING_THRESHOLD_PERCENT)
        => (elig_ret = "True" <=> now - guard >= WATERING_COOLDOWN_SECONDS)

\* C12 witness: 30 % with the last watering exactly one cooldown ago was
\* found eligible.
C12_CooldownElapsedEligible ==
    elig_in = 30000 /\ guard >= 0
        /\ now - guard = WATERING_COOLDOWN_SECONDS /\ elig_ret = "True"

\* C13: as long as every write of the guard timestamp has succeeded, a
\* watering cycle starts only when at least the cooldown has passed since the
\* previous watering cycle completed.
C13_CooldownBetweenWaterings ==
    [][\A p \in Procs :
          (lpc[p] = "cycle" /\ lpc'[p] = "watering"
              /\ ~guard_lost /\ watered_at # GuardAbsent)
              => now - watered_at >= WATERING_COOLDOWN_SECONDS]_vars

\* C13 witness: a watering cycle has started after an earlier one completed
\* and wrote its timestamp, the cooldown having passed in between.
C13_SecondWateringAfterCooldown ==
    \E p \in Procs :
        /\ lpc[p] = "watering" /\ pin = "LOW"
        /\ ~guard_lost /\ watered_at # GuardAbsent /\ guard = watered_at
        /\ now - watered_at >= WATERING_COOLDOWN_SECONDS

\* The positions of a sampling process inside its while loop
InLoop(p) == lpc[p] \in {"cycle", "watering", "insert", "sleep"}

\* C14: when a watering cycle ends, by returning or by the sleep raising,
\* the relay_log table ends with one ON event followed by one OFF event.
C14_WateringRecordsOnThenOff ==
    [][\A p \in Procs :
          (lpc[p] = "watering" /\ lpc'[p] \in {"insert", "finally"})
              => /\ Len(relay_log') = Len(relay_log) + 2
                 /\ relay_log'[Len(relay_log') - 1].action = "ON"
                 /\ relay_log'[Len(relay_log')].action = "OFF"]_vars

\* C15: a step of a watering cycle that writes the last-watering timestamp
\* leaves the pump de-energized.
C15_GuardWrittenOnlyWhenPumpOff ==
    [][\A p \in Procs :
          (lpc[p] = "watering" /\ guard' # guard) => pin' # "LOW"]_vars

\* C16: whatever sensors failed in a cycle, the step that persists the
\* cycle's reading adds exactly one row, and in it every field of a failed
\* sensor is NULL.
C16_FailedSensorsStoredAsNull ==
    [][\A p \in Procs :
          (lpc[p] = "insert" /\ lpc'[p] = "sleep")
              => /\ Len(logs') = Len(logs) + 1
                 /\ LET row == logs'[Len(logs')]
                    IN  /\ "lux" \in faulty => row.lux = NoReading
                        /\ "dht22" \in faulty
                              => (row.dht22_air_temp = NoReading
                                    /\ row.dht22_humidity = NoReading)
                        /\ "ds18b20" \in faulty
                              => row.ds18b20_soil_temp = NoReading
                        /\ soil_voltage[p] = NoReading
                              => (row.soil_raw = NoReading
                                    /\ row.soil_voltage = NoReading
                                    /\ row.soil_percent = NoReading)]_vars

\* C17: when the insert of a cycle raises, the sampling process stays in its
\* loop and goes on to the sleep before the next cycle.
C17_InsertFaultLoopContinues ==
    [][\A p \in Procs :
          (lpc[p] = "insert" /\ exc[p] = "none" /\ exc'[p] = "sqlite3.Error")
              => lpc'[p] = "sleep"]_vars

\* C18: when the supervisor's terminate request ends a sampling process that
\* is in its loop, the status marker is gone once the process has ended.
C18_GracefulStopRemovesMarker ==
    [][\A p \in Procs :
          (InLoop(p) /\ pend[p] = "TERM" /\ lpc'[p] = "exited")
              => status_file' = "absent"]_vars

\* C19: load_voltage_calibration returns and never raises, and for a file
\* that is missing, unreadable, not JSON, not an object, lacking a key or
\* holding non-numeric values it returns the defaults 1.60 / 0.20.
C19_LoadNeverFails ==
    cal_ret.call = "load"
        => /\ cal_ret.outcome = "returned"
           /\ cal_file.kind \in BrokenKinds
                 => (cal_ret.dry_v = default_dry_v /\ cal_ret.wet_v = default_wet_v)

\* C20: on a valid persisted profile, a dry-only update that read a voltage
\* persists that voltage as dry_v and the old wet_v; a wet-only update
\* persists that voltage as wet_v and the old dry_v.
C20_PartialUpdateKeepsOtherBound ==
    [][(cal_write.state = "open" /\ cal_write'.state = "closed"
          /\ cal_write.old.kind = "valid")
          => /\ cal_write.call = "calibrate_dry"
                   => cal_file' = CalFile("valid", cal_write.voltage,
                                          cal_write.old.wet_v)
             /\ cal_write.call = "calibrate_wet"
                   => cal_file' = CalFile("valid", cal_write.old.dry_v,
                                          cal_write.voltage)]_vars

\* C20 witness: a dry-only update on the profile 1.5 V / 0.3 V has persisted
\* 0.9 V / 0.3 V.
C20_DryUpdatedWetKept ==
    /\ cal_write.state = "closed" /\ cal_write.call = "calibrate_dry"
    /\ cal_write.voltage = 900
    /\ cal_write.old = CalFile("valid", 1500, 300)
    /\ cal_file = CalFile("valid", 900, 300)

\* C21: a load that runs while a save of a valid profile is under way
\* returns the complete old profile or the complete new one.
C21_LoadDuringSaveSeesOldOrNew ==
    (cal_ret.call = "load" /\ cal_write.state = "open"
        /\ cal_write.old.kind = "valid")
        => /\ cal_ret.outcome = "returned"
           /\ \/ (cal_ret.dry_v = cal_write.old.dry_v
                     /\ cal_ret.wet_v = cal_write.old.wet_v)
              \/ (cal_ret.dry_v = cal_write.new.dry_v
                     /\ cal_ret.wet_v = cal_write.new.wet_v)

\* The normalized bounds of the stored profile
DryBound == Max(cal_file.dry_v, cal_file.wet_v)
WetBound == Min(cal_file.dry_v, cal_file.wet_v)

\* C22: with dry > wet, for voltages wet <= v <= v2 <= dry the percentage of
\* v is not below that of v2; the percentage is 0 at dry and 100 at wet.
C22_ConversionNonIncreasing ==
    (conv_ret.called /\ cal_file.dry_v > cal_file.wet_v
        /\ conv_in.voltage # NoReading /\ conv_in.voltage2 # NoReading
        /\ cal_file.wet_v <= conv_in.voltage
        /\ conv_in.voltage <= conv_in.voltage2
        /\ conv_in.voltage2 <= cal_file.dry_v)
        => /\ conv_ret.percent >= conv_ret.percent2
           /\ conv_in.voltage = cal_file.dry_v => conv_ret.percent = 0
           /\ conv_in.voltage = cal_file.wet_v => conv_ret.percent = 100000

\* C22 witness: with 1.6 V / 0.2 V, 0.6 V converted to more than 0.9 V did.
C22_LowerVoltageWetter ==
    /\ conv_ret.called /\ cal_file = CalFile("valid", 1600, 200)
    /\ conv_in.voltage = 600 /\ conv_in.voltage2 = 900
    /\ conv_ret.percent > conv_ret.percent2

\* C23: for a voltage strictly between wet and dry the percentage is
\* (dry - v) / (dry - wet) * 100 rounded to 3 decimals; 0.90 V with
\* 1.60 V / 0.20 V converts to a value within 45..55.
C23_LinearInterpolation ==
    (conv_ret.called /\ cal_file.dry_v > cal_file.wet_v
        /\ conv_in.voltage # NoReading
        /\ cal_file.wet_v < conv_in.voltage /\ conv_in.voltage < cal_file.dry_v)
        => LET span == cal_file.dry_v - cal_file.wet_v
               exact == (cal_file.dry_v - conv_in.voltage) * 100000
               diff == conv_ret.percent * span - exact
           IN  /\ 2 * diff <= span /\ 2 * diff >= -span
               /\ (cal_file = CalFile("valid", 1600, 200) /\ conv_in.voltage = 900)
                     => (45000 <= conv_ret.percent /\ conv_ret.percent <= 55000)

\* C23 witness: the midpoint 0.90 V of 1.60 V / 0.20 V converted to 50 %.
C23_MidpointIsHalf ==
    /\ conv_ret.called /\ cal_file = CalFile("valid", 1600, 200)
    /\ conv_in.voltage = 900 /\ conv_ret.percent = 50000

\* C24: the conversion of a voltage with the stored pair (a, b) equals the
\* conversion with the pair (b, a).
C24_InvertedPairNormalized ==
    conv_ret.called => conv_ret.percent = conv_ret.swapped

\* C24 witness: with the inverted pair 0.3 V / 1.5 V stored, 0.6 V converted
\* to 75 %, as with 1.5 V / 0.3 V.
C24_InvertedPairConverted ==
    /\ conv_ret.called /\ cal_file = CalFile("valid", 300, 1500)
    /\ conv_in.voltage = 600
    /\ conv_ret.percent = 75000 /\ conv_ret.swapped = 75000

\* C25: with dry_v = wet_v the conversion returns 0 for every voltage, None
\* included.
C25_ZeroSpanGivesZero ==
    (conv_ret.called /\ cal_file.dry_v = cal_file.wet_v)
        => (conv_ret.percent = 0 /\ conv_ret.percent2 = 0)

\* C25 witness: with 0.3 V / 0.3 V, the voltages 0.2 V and None converted
\* to 0.
C25_ZeroSpanConverted ==
    /\ conv_ret.called /\ cal_file = CalFile("valid", 300, 300)
    /\ conv_in.voltage = 200 /\ conv_in.voltage2 = NoReading
    /\ conv_ret.percent = 0 /\ conv_ret.percent2 = 0

\* C26 as stated: for every calibration and input the result lies in
\* [0, 100], a voltage at or above dry gives 0, a voltage at or below wet
\* gives 100, None gives 0.
C26_RangeAndBoundsAnyCalibration ==
    conv_ret.called
        => /\ 0 <= conv_ret.percent /\ conv_ret.percent <= 100000
           /\ conv_in.voltage = NoReading => conv_ret.percent = 0
           /\ (conv_in.voltage # NoReading /\ conv_in.voltage >= DryBound)
                 => conv_ret.percent = 0
           /\ (conv_in.voltage # NoReading /\ conv_in.voltage <= WetBound)
                 => conv_ret.percent = 100000

\* C26 amended: for every calibration and input the result lies in [0, 100]
\* and None gives 0; when the normalized span is positive, a voltage at or
\* above dry gives 0 and a voltage at or below wet gives 100.
C26_RangeAndBoundsPositiveSpan ==
    conv_ret.called
        => /\ 0 <= conv_ret.percent /\ conv_ret.percent <= 100000
           /\ conv_in.voltage = NoReading => conv_ret.percent = 0
           /\ (conv_in.voltage # NoReading /\ DryBound > WetBound)
                 => /\ conv_in.voltage >= DryBound => conv_ret.percent = 0
                    /\ conv_in.voltage <= WetBound => conv_ret.percent = 100000

\* C26 witness: with 1.6 V / 0.2 V, 2.0 V converted to 0 and None to 0.
C26_AboveDryAndNoneGiveZero ==
    /\ conv_ret.called /\ cal_file = CalFile("valid", 1600, 200)
    /\ conv_in.voltage = 2000 /\ conv_in.voltage2 = NoReading
    /\ conv_ret.percent = 0 /\ conv_ret.percent2 = 0

\* The ids an ID specification names: its single ids and the ids within
\* its ranges
Named(ids) == UNION { ids[i].lo .. ids[i].hi : i \in 1..Len(ids) }

RowIds(rows) == [i \in 1..Len(rows) |-> rows[i].id]
Lowest(S, k) == {x \in S : Cardinality({y \in S : y < x}) < k}
Highest(S, k) == {x \in S : Cardinality({y \in S : y > x}) < k}
Ascending(q) == \A i, j \in 1..Len(q) : i < j => q[i] < q[j]
Descending(q) == \A i, j \in 1..Len(q) : i < j => q[i] > q[j]

\* C27: a delete with an ID specification of single ids and ranges removes
\* exactly the rows whose ids are named or fall within a range and leaves
\* every other row unchanged, whichever function performs it.
C27_DeleteRemovesExactlyNamed ==
    db_ret.call \in {"delete_sql_data", "delete_logs_by_id", "api_delete_logs"}
        => logs = SelectSeq(db_ret.before,
                            LAMBDA r : r.id \notin Named(db_ret.ids))

\* C28: after a delete of all rows, by either entry point, the logs table
\* is empty and the next inserted reading gets the first identifier.
C28_DeleteAllResetsSequence ==
    db_ret.call \in {"delete_sql_data(delete_all)", "api_delete_logs(all)"}
        => (logs = <<>> /\ NextId(logs, logs_seq) = 1)

\* C29: get_logs and get_relay_log called with limit 0 or None return all
\* stored records.
C29_ZeroOrNoneMeansUnlimited ==
    (db_ret.call \in {"get_logs", "get_relay_log"}
        /\ (db_ret.limit.none \/ db_ret.limit.n = 0))
        => (db_ret.outcome = "rows" /\ Len(db_ret.rows) = Len(db_ret.before))

\* C30 as stated: with a positive limit n the functions return
\* min(n, stored) records: get_logs the n lowest ids in the requested
\* order, get_relay_log the n most recent events.
C30_LimitTakesLowestIds ==
    (db_ret.call \in {"get_logs", "get_relay_log"}
        /\ ~db_ret.limit.none /\ db_ret.limit.n > 0)
        => LET k == Min(db_ret.limit.n, Len(db_ret.before))
               got == RowIds(db_ret.rows)
               ids == Ids(db_ret.before)
               set == {got[i] : i \in 1..Len(got)}
           IN  /\ db_ret.outcome = "rows"
               /\ Len(got) = k
               /\ db_ret.call = "get_logs"
                     => /\ set = Lowest(ids, k)
                        /\ IF db_ret.order = "DESC" THEN Descending(got)
                                                    ELSE Ascending(got)
               /\ db_ret.call = "get_relay_log"
                     => (set = Highest(ids, k) /\ Descending(got))

\* C30 amended: with a positive limit n the functions return
\* min(n, stored) records, the first n in the requested order: get_logs
\* the n lowest ids ascending for ASC and the n highest ids descending for
\* DESC, get_relay_log the n most recent events, newest first.
C30_LimitTakesFirstInOrder ==
    (db_ret.call \in {"get_logs", "get_relay_log"}
        /\ ~db_ret.limit.none /\ db_ret.limit.n > 0)
        => LET k == Min(db_ret.limit.n, Len(db_ret.before))
               got == RowIds(db_ret.rows)
               ids == Ids(db_ret.before)
               set == {got[i] : i \in 1..Len(got)}
           IN  /\ db_ret.outcome = "rows"
               /\ Len(got) = k
               /\ \A i \in 1..Len(got) :
                     \E j \in 1..Len(db_ret.before) :
                         db_ret.before[j] = db_ret.rows[i]
               /\ (db_ret.call = "get_logs" /\ db_ret.order = "ASC")
                     => (set = Lowest(ids, k) /\ Ascending(got))
               /\ (db_ret.call = "get_logs" /\ db_ret.order = "DESC")
                     => (set = Highest(ids, k) /\ Descending(got))
               /\ db_ret.call = "get_relay_log"
                     => (set = Highest(ids, k) /\ Descending(got))

\* C30 witness: get_logs(2, "DESC") on the full table returned its two
\* highest ids, the highest first.
C30_TwoNewestReturned ==
    /\ db_ret.call = "get_logs" /\ db_ret.order = "DESC"
    /\ db_ret.limit = IntLimit(2)
    /\ Len(db_ret.before) = InitRows
    /\ RowIds(db_ret.rows) = <<InitRows, InitRows - 1>>

\* C31: set_relay_state(pin, True) drives the pin LOW, set_relay_state(pin,
\* False) drives it HIGH, and get_relay_state(pin) returns the state last
\* set.
C31_SetThenGetRoundTrips ==
    /\ relay_ret.set = "True" => pin = "LOW"
    /\ relay_ret.set = "False" => pin = "HIGH"
    /\ (relay_ret.set # "none" /\ relay_ret.get # "none")
          => relay_ret.get = relay_ret.set

\* C33: when every toggle request has completed and at least one was made,
\* the relay's physical state equals the action of the most recently
\* recorded relay event.
C33_StateMatchesLastRecordedEvent ==
    ((\A r \in Requests : req[r].pc \in {"none", "done"})
        /\ (\E r \in Requests : req[r].pc = "done"))
        => /\ relay_log # <<>>
           /\ PumpOn <=> relay_log[Len(relay_log)].action = "ON"

\* C32: the reading row of a cycle is persisted before that cycle's
\* watering is evaluated or performed: while the watering of the n-th cycle
\* runs, the logs table holds the row of the n-th cycle.
C32_RowPersistedBeforeWatering ==
    \A p \in Procs : lpc[p] = "watering" => Len(logs) >= ncycles

\* C34: in stop() a force kill is issued only after the terminate request
\* was sent and the bounded wait expired with the process still there; after
\* a wait that saw the process exit no kill follows; and stop() ends by
\* returning its result.
C34_KillOnlyAfterTimeoutStopReturns ==
    [][\A t \in Threads :
          /\ (pc[t] # "st_kill" /\ pc'[t] = "st_kill")
                => (pc[t] = "st_waiting" /\ tgt[t] # NoProc /\ Alive(tgt[t]))
          /\ (pc[t] = "st_waiting" /\ ~Alive(tgt[t])) => pc'[t] # "st_kill"
          /\ (ctx[t] = "stop" /\ Finishes(t)) => ret'[t] # "raised"]_vars

\* C35: with the guard file present but unreadable or not a number, the
\* eligibility check returns (it does not raise) and its result is the
\* moisture-below-threshold test alone.
C35_BrokenGuardIsNoPriorWatering ==
    (elig_ret # "none" /\ guard \in {GuardCorrupt, GuardUnreadable})
        => /\ elig_ret \in {"True", "False"}
           /\ elig_ret = "True"
                 <=> (elig_in # NoReading /\ elig_in < WATERING_THRESHOLD_PERCENT)

\* C35 witness: 30 % with a guard file that holds no number was found
\* eligible.
C35_CorruptGuardEligible ==
    elig_in = 30000 /\ guard = GuardCorrupt /\ elig_ret = "True"

\* C36: when the write of the last-watering timestamp fails, the watering
\* cycle still completes without raising and with the pump OFF, the watering
\* is not rolled back, the guard keeps its previous value, and the sampling
\* cycle goes on with its remaining steps.
C36_GuardWriteFailureTolerated ==
    [][\A p \in Procs :
          (lpc[p] = "watering" /\ lpc'[p] = "insert" /\ guard' # now')
              => /\ ~PumpOn'
                 /\ watered_at' = now'
                 /\ guard' = guard
                 /\ exc'[p] = "none"]_vars

\* C37: a read that returns values has issued exactly one sample before
\* the settle interval, dropped it, and taken the returned raw value and
\* voltage after the settle interval; the first sample is never used.
C37_FlushThenRead ==
    (adc.pc = "returned" /\ adc.voltage # NoReading)
        => /\ adc.slept_after = 1
           /\ adc.raw_from > adc.slept_after
           /\ adc.voltage_from > adc.slept_after
           /\ adc.raw = adc.taken[adc.raw_from]
           /\ adc.voltage = adc.taken[adc.voltage_from]

\* C37 witness: the first sample was 1.6 V, the read returned the 0.9 V
\* taken after the settle interval.
C37_FirstSampleDropped ==
    /\ adc.pc = "returned" /\ Len(adc.taken) = 3
    /\ adc.taken[1] = 1600 /\ adc.raw = 900 /\ adc.voltage = 900

\* C38: once no live process is left in the handle (after a successful
\* stop() or after the process exited on its own), a status query returns
\* False and leaves the handle cleared, and a start() that took the lock in
\* that situation is not rejected: its is_running() check lets it go on to
\* spawn a new process.
C38_RestartAccepted ==
    [][\A t \in Threads :
          /\ (ctx[t] = "status" /\ InIsRunning(t) /\ Finishes(t)
                 /\ ~Alive(self_proc))
                => (ret'[t] = "False" /\ self_proc' = NoProc)
          /\ (ctx[t] = "start1" /\ pre[t] = NoProc /\ InIsRunning(t)
                 /\ pc'[t] # pc[t])
                => pc'[t] \in {"ir2", "ir3", "spawn"}]_vars

\* C39: in every state in which no start() or stop() is in progress, a
\* status file that reports RUNNING means a sampling process is alive.
C39_RunningStatusMeansAlive ==
    ((\A t \in Threads : pc[t] = "done" \/ ctx[t] = "status")
        /\ status_file = "RUNNING")
        => AliveProcs # {}

====
